---- MODULE Spec2Model ----
(***************************************************************************)
(* Model of UK2Node_MultiConditionalSelect (AdvancedControlFlow plugin):   *)
(* the node's pin set, the type unification done in                        *)
(* PinConnectionListChanged, reconstruction, connection validation and     *)
(* the expansion of the node into Select / MakeArray / Array_Find /        *)
(* EqualEqual_IntInt primitives.                                           *)
(*                                                                         *)
(* Code indices are 0-based (TArray); sequences here are 1-based, so the   *)
(* pin the code finds at Pins[i] is Pins[i + 1] in the model.              *)
(***************************************************************************)
EXTENDS Integers, Sequences, FiniteSets, TLC

VARIABLES
    Pins,       \* UEdGraphNode::Pins of the custom node, in ordinal order
    Blueprint,  \* owning document: modified flag, number of BroadcastChanged
    attempt,    \* the IsConnectionDisallowed query of the last step, if it made one
    lastOp,     \* the handler that ran last
    Intermediate, \* pins of the primitive nodes ExpandNode spawned, by pin key
    pc,         \* position of ExpandNode in its body
    run         \* one evaluation of the expanded subgraph: inputs and result

vars == <<Pins, Blueprint, attempt, lastOp, Intermediate, pc, run>>
editVars == <<Blueprint, attempt, lastOp>>
expandVars == <<Intermediate, pc, run>>

-----------------------------------------------------------------------------
(* Bounds of the model *)

MaxCases == 3        \* add-case-pair is offered while the node has fewer pairs
MaxLinks == 1        \* links the node holds at a time
MaxBroadcasts == 2   \* BroadcastChanged notifications counted
MaxExpandCases == 3  \* case pairs of a node handed to ExpandNode

-----------------------------------------------------------------------------
(* Pin categories, pin types, pin names *)

PC_Wildcard == "wildcard"
PC_Boolean == "bool"
PC_Exec == "exec"
PC_Int == "int"
PC_Object == "object"

EGPD_Input == "input"
EGPD_Output == "output"

\* FEdGraphPinType as built by CreatePin from a bare category.
PinTypeOf(Category) == [PinCategory |-> Category, PinSubCategory |-> ""]

DefaultOptionPinName == [Prefix |-> "Default", Index |-> -1]
ReturnValueOptionPinName == [Prefix |-> "Return Value", Index |-> -1]
CaseKeyPinNamePrefix == "CaseOption"
CaseValuePinNamePrefix == "CaseCondition"

\* The stable name of a case pin: the prefix and the case index.
GetCasePinName(Prefix, CaseIndex) == [Prefix |-> Prefix, Index |-> CaseIndex]

\* Pins of other nodes the user can try to link to the node, with their types.
PeerPinType ==
    <<  [PinCategory |-> PC_Int, PinSubCategory |-> ""],
        [PinCategory |-> PC_Object, PinSubCategory |-> "Actor"],
        [PinCategory |-> PC_Wildcard, PinSubCategory |-> ""],
        [PinCategory |-> PC_Exec, PinSubCategory |-> ""] >>

Peers == DOMAIN PeerPinType

\* A reference to a pin of another node, as stored in LinkedTo.
PeerRef(p) == [Node |-> "Ext", Pin |-> "Peer", Index |-> p]

\* LinkedPin->PinType
LinkedPinType(ref) == PeerPinType[ref.Index]

-----------------------------------------------------------------------------
(* Host framework: pin creation and lookup *)

\* UEdGraphNode::CreatePin: the new pin is inserted at Params.Index when that
\* is a valid index of Pins and appended otherwise.
CreatePin(pins, Dir, Category, Name, Index) ==
    LET NewPin == [PinName |-> Name, Direction |-> Dir,
                   PinType |-> PinTypeOf(Category),
                   DefaultValue |-> "", LinkedTo |-> <<>>]
    IN  IF Index >= 0 /\ Index < Len(pins)
        THEN SubSeq(pins, 1, Index) \o <<NewPin>> \o SubSeq(pins, Index + 1, Len(pins))
        ELSE Append(pins, NewPin)

\* UEdGraphNode::FindPin: position of the first pin of that name, 0 for null.
FindPin(pins, Name) ==
    IF \E i \in 1..Len(pins) : pins[i].PinName = Name
    THEN CHOOSE i \in 1..Len(pins) :
            /\ pins[i].PinName = Name
            /\ \A j \in 1..(i - 1) : pins[j].PinName # Name
    ELSE 0

IsCaseKeyPin(pin) == pin.PinName.Prefix = CaseKeyPinNamePrefix
IsCaseValuePin(pin) == pin.PinName.Prefix = CaseValuePinNamePrefix

\* The number of case pairs is the number of option pins.
GetCasePinCount(pins) == Cardinality({i \in 1..Len(pins) : IsCaseKeyPin(pins[i])})

\* The case pairs in index order, each as the positions of its two pins.
GetCasePinPairs(pins) ==
    [i \in 1..GetCasePinCount(pins) |->
        [Key |-> FindPin(pins, GetCasePinName(CaseKeyPinNamePrefix, i - 1)),
         Value |-> FindPin(pins, GetCasePinName(CaseValuePinNamePrefix, i - 1))]]

GetDefaultOptionPin(pins) == FindPin(pins, DefaultOptionPinName)
GetReturnValuePin(pins) == FindPin(pins, ReturnValueOptionPinName)

-----------------------------------------------------------------------------
(* Dynamic pin set *)

CreateDefaultOptionPin(pins) ==
    CreatePin(pins, EGPD_Input, PC_Wildcard, DefaultOptionPinName, 0)

CreateReturnValuePin(pins) ==
    LET N == GetCasePinCount(pins)
    IN  CreatePin(pins, EGPD_Output, PC_Wildcard, ReturnValueOptionPinName, 2 * N + 1)

\* Mutant: the condition pin is inserted one position too early.
AddCasePinPair_ConditionIndex(pins, CaseIndex) ==
    LET N == GetCasePinCount(pins)
        DefaultOptionPin == GetDefaultOptionPin(pins)
        withKey == CreatePin(pins, EGPD_Input, PC_Wildcard,
                             GetCasePinName(CaseKeyPinNamePrefix, CaseIndex), 1 + CaseIndex)
        key == FindPin(withKey, GetCasePinName(CaseKeyPinNamePrefix, CaseIndex))
        typed == [withKey EXCEPT ![key].PinType = pins[DefaultOptionPin].PinType]
    IN  CreatePin(typed, EGPD_Input, PC_Boolean,
                  GetCasePinName(CaseValuePinNamePrefix, CaseIndex), N + 1 + CaseIndex)

\* Mutant: the new option pin keeps the wildcard type it was created with.
AddCasePinPair_Wildcard(pins, CaseIndex) ==
    LET N == GetCasePinCount(pins)
        withKey == CreatePin(pins, EGPD_Input, PC_Wildcard,
                             GetCasePinName(CaseKeyPinNamePrefix, CaseIndex), 1 + CaseIndex)
    IN  CreatePin(withKey, EGPD_Input, PC_Boolean,
                  GetCasePinName(CaseValuePinNamePrefix, CaseIndex), N + 2 + CaseIndex)

AddCasePinPair(pins, CaseIndex) ==
    LET N == GetCasePinCount(pins)
        DefaultOptionPin == GetDefaultOptionPin(pins)
        withKey == CreatePin(pins, EGPD_Input, PC_Wildcard,
                             GetCasePinName(CaseKeyPinNamePrefix, CaseIndex), 1 + CaseIndex)
        key == FindPin(withKey, GetCasePinName(CaseKeyPinNamePrefix, CaseIndex))
        typed == [withKey EXCEPT ![key].PinType = pins[DefaultOptionPin].PinType]
    IN  CreatePin(typed, EGPD_Input, PC_Boolean,
                  GetCasePinName(CaseValuePinNamePrefix, CaseIndex), N + 2 + CaseIndex)

RECURSIVE AddCasePinPairs(_, _, _)
\* for (Index = From; Index < To; ++Index) AddCasePinPair(Index)
AddCasePinPairs(pins, From, To) ==
    IF From >= To THEN pins
    ELSE AddCasePinPairs(AddCasePinPair(pins, From), From + 1, To)

\* Mutant: the loop over the initial case pairs stops after the first pair.
AllocatedDefaultPins_OnePair ==
    AddCasePinPairs(CreateReturnValuePin(CreateDefaultOptionPin(<<>>)), 0, 1)

AllocatedDefaultPins ==
    AddCasePinPairs(CreateReturnValuePin(CreateDefaultOptionPin(<<>>)), 0, 2)

-----------------------------------------------------------------------------
(* Type unification *)

\* UEdGraphSchema_K2::ResetPinToAutogeneratedDefaultValue: the literal goes
\* back to the default of the pin's (new) type.
AutogeneratedDefaultValue(PinType) ==
    CASE PinType.PinCategory = PC_Int -> "0"
      [] PinType.PinCategory = PC_Boolean -> "false"
      [] OTHER -> ""

ResetPinToAutogeneratedDefaultValue(pin) ==
    [pin EXCEPT !.DefaultValue = AutogeneratedDefaultValue(pin.PinType)]

\* Mutant: the "pin type has already fixed" return is missing.
PassRuns_NoFixedCheck(pins, Pin) ==
    /\ Pin # 0
    /\ Len(pins[Pin].LinkedTo) # 0
    /\ ~IsCaseValuePin(pins[Pin])

\* Mutant: the "ignore condition pin connection" return is missing.
PassRuns_NoConditionCheck(pins, Pin) ==
    /\ Pin # 0
    /\ Len(pins[Pin].LinkedTo) # 0
    /\ pins[GetDefaultOptionPin(pins)].PinType.PinCategory = PC_Wildcard

\* Mutant: events for output pins are ignored as well.
PassRuns_InputOnly(pins, Pin) ==
    /\ Pin # 0
    /\ Len(pins[Pin].LinkedTo) # 0
    /\ ~IsCaseValuePin(pins[Pin])
    /\ pins[Pin].Direction = EGPD_Input
    /\ pins[GetDefaultOptionPin(pins)].PinType.PinCategory = PC_Wildcard

\* Whether PinConnectionListChanged(Pin) gets past its four early returns.
\* Pin is a position in pins, 0 for nullptr.
PassRuns(pins, Pin) ==
    /\ Pin # 0
    /\ Len(pins[Pin].LinkedTo) # 0
    /\ ~IsCaseValuePin(pins[Pin])
    /\ pins[GetDefaultOptionPin(pins)].PinType.PinCategory = PC_Wildcard

\* Mutant: the option pins get the new type but their literal is not reset.
UnifyPinTypes_NoOptionReset(pins, Pin) ==
    LET T == LinkedPinType(pins[Pin].LinkedTo[1])
        DefaultOptionPin == GetDefaultOptionPin(pins)
        ReturnValuePin == GetReturnValuePin(pins)
        CasePinPairs == GetCasePinPairs(pins)
        OptionPins == {CasePinPairs[i].Key : i \in DOMAIN CasePinPairs}
    IN  [i \in 1..Len(pins) |->
            IF i = DefaultOptionPin \/ i = ReturnValuePin
            THEN ResetPinToAutogeneratedDefaultValue([pins[i] EXCEPT !.PinType = T])
            ELSE IF i \in OptionPins THEN [pins[i] EXCEPT !.PinType = T]
            ELSE pins[i]]

\* Mutant: the option pins get the category of the linked pin, not its type.
UnifyPinTypes_CategoryOnly(pins, Pin) ==
    LET T == LinkedPinType(pins[Pin].LinkedTo[1])
        DefaultOptionPin == GetDefaultOptionPin(pins)
        ReturnValuePin == GetReturnValuePin(pins)
        CasePinPairs == GetCasePinPairs(pins)
        OptionPins == {CasePinPairs[i].Key : i \in DOMAIN CasePinPairs}
    IN  [i \in 1..Len(pins) |->
            IF i = DefaultOptionPin \/ i = ReturnValuePin
            THEN ResetPinToAutogeneratedDefaultValue([pins[i] EXCEPT !.PinType = T])
            ELSE IF i \in OptionPins
            THEN ResetPinToAutogeneratedDefaultValue(
                    [pins[i] EXCEPT !.PinType.PinCategory = T.PinCategory])
            ELSE pins[i]]

\* The body of the pass: the type of Pin->LinkedTo[0] goes to the default
\* pin, the return value pin and every option pin, each reset to its default.
UnifyPinTypes(pins, Pin) ==
    LET T == LinkedPinType(pins[Pin].LinkedTo[1])
        DefaultOptionPin == GetDefaultOptionPin(pins)
        ReturnValuePin == GetReturnValuePin(pins)
        CasePinPairs == GetCasePinPairs(pins)
        OptionPins == {CasePinPairs[i].Key : i \in DOMAIN CasePinPairs}
    IN  [i \in 1..Len(pins) |->
            IF i = DefaultOptionPin \/ i = ReturnValuePin \/ i \in OptionPins
            THEN ResetPinToAutogeneratedDefaultValue([pins[i] EXCEPT !.PinType = T])
            ELSE pins[i]]

PinConnectionListChanged(pins, Pin) ==
    IF PassRuns(pins, Pin) THEN UnifyPinTypes(pins, Pin) ELSE pins

\* FBlueprintEditorUtils::MarkBlueprintAsModified and BroadcastChanged.
MarkAndBroadcast(bp) ==
    [Modified |-> TRUE, Broadcasts |-> bp.Broadcasts + 1]

-----------------------------------------------------------------------------
(* Reconstruction *)

\* The superclass recreates one case pair per option pin of the old pin set.
SuperReallocatePinsDuringReconstruction(pins, OldPins) ==
    AddCasePinPairs(pins, 0, GetCasePinCount(OldPins))

\* Mutant: the old default pin's type is not copied forward.
ReallocatePinsDuringReconstruction_NoCopy(OldPins) ==
    SuperReallocatePinsDuringReconstruction(
        CreateReturnValuePin(CreateDefaultOptionPin(<<>>)), OldPins)

ReallocatePinsDuringReconstruction(OldPins) ==
    LET OldDefaultPin == FindPin(OldPins, DefaultOptionPinName)
        fresh == SuperReallocatePinsDuringReconstruction(
                    CreateReturnValuePin(CreateDefaultOptionPin(<<>>)), OldPins)
        DefaultOptionPin == GetDefaultOptionPin(fresh)
        ReturnValuePin == GetReturnValuePin(fresh)
        CasePinPairs == GetCasePinPairs(fresh)
        OptionPins == {CasePinPairs[i].Key : i \in DOMAIN CasePinPairs}
    IN  IF OldDefaultPin # 0
        THEN [i \in 1..Len(fresh) |->
                IF i = DefaultOptionPin \/ i = ReturnValuePin \/ i \in OptionPins
                THEN [fresh[i] EXCEPT !.PinType = OldPins[OldDefaultPin].PinType]
                ELSE fresh[i]]
        ELSE fresh

\* The host's ReconstructNode moves the links and the literal of every old
\* pin to the new pin of the same name.
RewireOldPinsToNewPins(OldPins, NewPins) ==
    [i \in 1..Len(NewPins) |->
        LET old == FindPin(OldPins, NewPins[i].PinName)
        IN  IF old # 0
            THEN [NewPins[i] EXCEPT !.DefaultValue = OldPins[old].DefaultValue,
                                    !.LinkedTo = OldPins[old].LinkedTo]
            ELSE NewPins[i]]

-----------------------------------------------------------------------------
(* Connection validation *)

ExecReason == "Can't connect with Exec pin."

\* Mutant: execution pins are not checked, the superclass decides alone.
IsConnectionDisallowed_NoExecCheck(MyPin, OtherPin, SuperDisallowed) ==
    [Result |-> SuperDisallowed,
     OutReason |-> IF SuperDisallowed THEN "super" ELSE ""]

\* Mutant: the superclass's answer is dropped.
IsConnectionDisallowed_Override(MyPin, OtherPin, SuperDisallowed) ==
    IF OtherPin # 0 /\ PeerPinType[OtherPin].PinCategory = PC_Exec
    THEN [Result |-> TRUE, OutReason |-> ExecReason]
    ELSE [Result |-> FALSE, OutReason |-> ""]

\* The answer of IsConnectionDisallowed for OtherPin (a peer, 0 for nullptr),
\* given what the superclass answers: the result and OutReason.
IsConnectionDisallowed(MyPin, OtherPin, SuperDisallowed) ==
    IF OtherPin # 0 /\ PeerPinType[OtherPin].PinCategory = PC_Exec
    THEN [Result |-> TRUE, OutReason |-> ExecReason]
    ELSE [Result |-> SuperDisallowed,
          OutReason |-> IF SuperDisallowed THEN "super" ELSE ""]

-----------------------------------------------------------------------------
(* The editor session *)

NoPins == [k \in {} |-> 0]
NoRun == [Cond |-> <<>>, Opt |-> <<>>, Def |-> "", OutOfRange |-> "", Result |-> ""]

NoAttempt == [OtherPin |-> 0, SuperDisallowed |-> FALSE,
              Result |-> FALSE, OutReason |-> ""]

NumLinks == LET RECURSIVE Sum(_)
                Sum(i) == IF i = 0 THEN 0 ELSE Len(Pins[i].LinkedTo) + Sum(i - 1)
            IN  Sum(Len(Pins))

Init ==
    /\ Pins = <<>>
    /\ Blueprint = [Modified |-> FALSE, Broadcasts |-> 0]
    /\ attempt = NoAttempt
    /\ lastOp = "Construct"
    /\ Intermediate = NoPins
    /\ pc = "edit"
    /\ run = NoRun

\* The node is placed in a graph.
AllocateDefaultPins ==
    /\ Pins = <<>>
    /\ Pins' = AllocatedDefaultPins
    /\ lastOp' = "AllocateDefaultPins"
    /\ attempt' = NoAttempt
    /\ UNCHANGED <<Blueprint, expandVars>>

\* The user's "add pin pair": a pair is added after the last one.
AddCasePinLast ==
    /\ Pins # <<>>
    /\ GetCasePinCount(Pins) < MaxCases
    /\ Pins' = AddCasePinPair(Pins, GetCasePinCount(Pins))
    /\ lastOp' = "AddCasePinPair"
    /\ attempt' = NoAttempt
    /\ UNCHANGED <<Blueprint, expandVars>>

\* The user drags a link from peer OtherPin to pin MyPin: the host asks
\* IsConnectionDisallowed, and when allowed makes the link and sends
\* PinConnectionListChanged(MyPin).
Connect(MyPin, OtherPin, SuperDisallowed) ==
    LET answer == IsConnectionDisallowed(MyPin, OtherPin, SuperDisallowed)
        linked == [Pins EXCEPT ![MyPin].LinkedTo = Append(@, PeerRef(OtherPin))]
    IN  /\ Pins # <<>>
        /\ attempt' = [OtherPin |-> OtherPin,
                       SuperDisallowed |-> SuperDisallowed,
                       Result |-> answer.Result, OutReason |-> answer.OutReason]
        /\ lastOp' = "Connect"
        /\ UNCHANGED expandVars
        /\ IF answer.Result
           THEN UNCHANGED <<Pins, Blueprint>>
           ELSE /\ NumLinks < MaxLinks
                /\ PassRuns(linked, MyPin) => Blueprint.Broadcasts < MaxBroadcasts
                /\ Pins' = PinConnectionListChanged(linked, MyPin)
                /\ Blueprint' = IF PassRuns(linked, MyPin)
                                THEN MarkAndBroadcast(Blueprint) ELSE Blueprint

\* The user breaks the k-th link of pin MyPin; the host sends
\* PinConnectionListChanged(MyPin).
Disconnect(MyPin, k) ==
    LET s == Pins[MyPin].LinkedTo
        broken == [Pins EXCEPT ![MyPin].LinkedTo =
                        SubSeq(s, 1, k - 1) \o SubSeq(s, k + 1, Len(s))]
    IN  /\ k \in 1..Len(s)
        /\ PassRuns(broken, MyPin) => Blueprint.Broadcasts < MaxBroadcasts
        /\ Pins' = PinConnectionListChanged(broken, MyPin)
        /\ Blueprint' = IF PassRuns(broken, MyPin)
                        THEN MarkAndBroadcast(Blueprint) ELSE Blueprint
        /\ lastOp' = "Disconnect"
        /\ UNCHANGED expandVars
        /\ attempt' = NoAttempt

\* The host reconstructs the node (reload, refresh).
ReconstructNode ==
    /\ Pins # <<>>
    /\ Pins' = RewireOldPinsToNewPins(Pins, ReallocatePinsDuringReconstruction(Pins))
    /\ lastOp' = "ReconstructNode"
    /\ attempt' = NoAttempt
    /\ UNCHANGED <<Blueprint, expandVars>>

Next ==
    \/ AllocateDefaultPins
    \/ AddCasePinLast
    \/ \E MyPin \in 1..Len(Pins), OtherPin \in Peers, SuperDisallowed \in BOOLEAN :
            Connect(MyPin, OtherPin, SuperDisallowed)
    \/ \E MyPin \in 1..Len(Pins), k \in 1..MaxLinks : Disconnect(MyPin, k)
    \/ ReconstructNode

Spec == Init /\ [][Next]_vars

-----------------------------------------------------------------------------
(* Expansion: the primitive nodes and their wiring *)

\* A pin of a primitive node is known by its node, its name and its index.
Key(Node, Pin, Index) == [Node |-> Node, Pin |-> Pin, Index |-> Index]

NoName == [Prefix |-> "", Index |-> -1]

\* A freshly allocated pin of a primitive node. MovedFrom names the pin of
\* the custom node whose links and literal MovePinLinksToIntermediate put
\* here: this pin then reads what that pin read.
FreshPin == [DefaultValue |-> "", LinkedTo |-> <<>>, MovedFrom |-> NoName]

\* Mutant: the AddInputPin loop of the Selects starts at Index = 1.
SelectOptionCount_LoopFromOne(NumCases) == IF NumCases > 1 THEN NumCases + 1 ELSE 2

\* UK2Node_Select::AllocateDefaultPins makes two options; the loop from
\* Index = 2 adds one per further case pair.
SelectOptionCount(NumCases) == IF NumCases > 2 THEN NumCases ELSE 2

\* UK2Node_MakeArray::AllocateDefaultPins makes one input; the loop from
\* Index = 1 adds one per further case pair.
MakeArrayInputCount(NumCases) == IF NumCases > 1 THEN NumCases ELSE 1

SelectPins(Node, NumOptions) ==
    {Key(Node, "Option", i) : i \in 0..(NumOptions - 1)}
        \cup {Key(Node, "Index", 0), Key(Node, "ReturnValue", 0)}

KeyPinsOf(g) == {k \in DOMAIN g : k.Node = "MakeArray" /\ k.Pin = "Key"}

\* The five SpawnIntermediateNode calls with their AllocateDefaultPins and
\* AddInputPin loops. st is the custom node's pins and the primitive pins.
SpawnIntermediateNodes(st) ==
    LET NumCases == Len(GetCasePinPairs(st.Pins))
        keys == SelectPins("Select1st", SelectOptionCount(NumCases))
                \cup SelectPins("Select2nd", SelectOptionCount(NumCases))
                \cup {Key("MakeArray", "Key", i) : i \in 0..(MakeArrayInputCount(NumCases) - 1)}
                \cup {Key("MakeArray", "Array", 0)}
                \cup {Key("ArrayFind", "TargetArray", 0), Key("ArrayFind", "ItemToFind", 0),
                      Key("ArrayFind", "ReturnValue", 0)}
                \cup {Key("IntEqual", "A", 0), Key("IntEqual", "B", 0),
                      Key("IntEqual", "ReturnValue", 0)}
    IN  [Pins |-> st.Pins, G |-> [k \in keys |-> FreshPin]]

\* FKismetCompilerContext::MovePinLinksToIntermediate: the links and the
\* literal of Source (a pin of the custom node) go to Dest; Source keeps none.
MovePinLinksToIntermediate(st, Source, Dest) ==
    [Pins |-> [st.Pins EXCEPT ![Source].LinkedTo = <<>>],
     G |-> [st.G EXCEPT ![Dest] =
                [DefaultValue |-> st.Pins[Source].DefaultValue,
                 LinkedTo |-> @.LinkedTo \o st.Pins[Source].LinkedTo,
                 MovedFrom |-> st.Pins[Source].PinName]]]

\* UEdGraphPin::MakeLinkTo: each pin enters the other's LinkedTo.
MakeLinkTo(g, A, B) ==
    [g EXCEPT ![A].LinkedTo = Append(@, B), ![B].LinkedTo = Append(@, A)]

\* UEdGraphSchema::TrySetDefaultValue
TrySetDefaultValue(g, Pin, Value) == [g EXCEPT ![Pin].DefaultValue = Value]

RECURSIVE MoveOptionLinks(_, _)
\* Link between outer and 1st Select, from case Index on.
MoveOptionLinks(st, Index) ==
    LET CasePinPairs == GetCasePinPairs(st.Pins)
    IN  IF Index >= Len(CasePinPairs) THEN st
        ELSE MoveOptionLinks(
                MovePinLinksToIntermediate(st, CasePinPairs[Index + 1].Key,
                                           Key("Select1st", "Option", Index)),
                Index + 1)

RECURSIVE MoveConditionLinks(_, _)
\* Link between outer and Make Array, from case Index on.
MoveConditionLinks(st, Index) ==
    LET CasePinPairs == GetCasePinPairs(st.Pins)
    IN  IF Index >= Len(CasePinPairs) THEN st
        ELSE MoveConditionLinks(
                MovePinLinksToIntermediate(st, CasePinPairs[Index + 1].Value,
                                           Key("MakeArray", "Key", Index)),
                Index + 1)

\* Mutant: the loop over the option pins starts at Index = 1, as the
\* AddInputPin loop of the array builder does.
LinkOptions_FromSecond(st) == MoveOptionLinks(st, 1)

LinkOptions(st) == MoveOptionLinks(st, 0)

LinkConditions(st) == MoveConditionLinks(st, 0)

\* Mutant: Array_Find is told to look for "false".
LinkMakeArrayToArrayFind_FindFalse(st) ==
    [st EXCEPT !.G = TrySetDefaultValue(
        MakeLinkTo(@, Key("MakeArray", "Array", 0), Key("ArrayFind", "TargetArray", 0)),
        Key("ArrayFind", "ItemToFind", 0), "false")]

\* Link between Make Array and Array Find
LinkMakeArrayToArrayFind(st) ==
    [st EXCEPT !.G = TrySetDefaultValue(
        MakeLinkTo(@, Key("MakeArray", "Array", 0), Key("ArrayFind", "TargetArray", 0)),
        Key("ArrayFind", "ItemToFind", 0), "true")]

\* Link between Array Find and 1st Select
LinkArrayFindToSelect1st(st) ==
    [st EXCEPT !.G = MakeLinkTo(@, Key("ArrayFind", "ReturnValue", 0),
                                   Key("Select1st", "Index", 0))]

\* Link between Array Find and Int Equal
LinkArrayFindToIntEqual(st) ==
    [st EXCEPT !.G = TrySetDefaultValue(
        MakeLinkTo(@, Key("ArrayFind", "ReturnValue", 0), Key("IntEqual", "A", 0)),
        Key("IntEqual", "B", 0), "-1")]

\* Mutant: the two option inputs of the 2nd Select are exchanged.
LinkSelects_Swapped(st) ==
    LET g1 == MakeLinkTo(st.G, Key("IntEqual", "ReturnValue", 0), Key("Select2nd", "Index", 0))
        g2 == MakeLinkTo(g1, Key("Select1st", "ReturnValue", 0), Key("Select2nd", "Option", 1))
    IN  MovePinLinksToIntermediate([st EXCEPT !.G = g2], GetDefaultOptionPin(st.Pins),
                                   Key("Select2nd", "Option", 0))

\* Link among 1st Select, 2nd Select and Int Equal
LinkSelects(st) ==
    LET g1 == MakeLinkTo(st.G, Key("IntEqual", "ReturnValue", 0), Key("Select2nd", "Index", 0))
        g2 == MakeLinkTo(g1, Key("Select1st", "ReturnValue", 0), Key("Select2nd", "Option", 0))
    IN  MovePinLinksToIntermediate([st EXCEPT !.G = g2], GetDefaultOptionPin(st.Pins),
                                   Key("Select2nd", "Option", 1))

\* Mutant: the node's links are broken before the return value pin's links
\* are moved.
LinkReturnValue_BreakFirst(st) ==
    MovePinLinksToIntermediate(
        [st EXCEPT !.Pins = [i \in 1..Len(st.Pins) |->
                                [st.Pins[i] EXCEPT !.LinkedTo = <<>>]]],
        GetReturnValuePin(st.Pins), Key("Select2nd", "ReturnValue", 0))

\* Link 2nd Select and outer
LinkReturnValue(st) ==
    MovePinLinksToIntermediate(st, GetReturnValuePin(st.Pins),
                               Key("Select2nd", "ReturnValue", 0))

\* UEdGraphNode::BreakAllNodeLinks on the custom node.
BreakAllNodeLinks(st) ==
    [st EXCEPT !.Pins = [i \in 1..Len(st.Pins) |-> [st.Pins[i] EXCEPT !.LinkedTo = <<>>]]]

-----------------------------------------------------------------------------
(* Evaluation of the expanded subgraph *)

\* Values are the strings pins carry: "true"/"false", decimal integers, and
\* the values fed to the option pins and to the default pin. The default
\* value and what a Select yields out of range can equal an option value or
\* differ from every one of them.
OptionValues == {"A", "B", "C"}
DefaultValues == {"A", "D"}
OutOfRangeValues == {"A", "D"}
Booleans == {"true", "false"}

Digits == <<"0", "1", "2", "3", "4", "5", "6", "7", "8", "9">>
IntToString(i) == IF i < 0 THEN "-1" ELSE Digits[i + 1]

\* The option a Select takes for an index value: 0/1 for a boolean index,
\* the number for an integer index; -1 when there is none.
SelectIndex(v) ==
    CASE v = "false" -> 0
      [] v = "true" -> 1
      [] \E i \in 0..9 : Digits[i + 1] = v -> CHOOSE i \in 0..9 : Digits[i + 1] = v
      [] OTHER -> -1

\* UKismetArrayLibrary::Array_Find: the first index holding the item, or -1.
Array_Find(TargetArray, ItemToFind) ==
    IF \E i \in 1..Len(TargetArray) : TargetArray[i] = ItemToFind
    THEN (CHOOSE i \in 1..Len(TargetArray) :
            /\ TargetArray[i] = ItemToFind
            /\ \A j \in 1..(i - 1) : TargetArray[j] # ItemToFind) - 1
    ELSE -1

\* What a pin of the custom node reads at run time, by its name.
InputOf(env, Name) ==
    CASE Name = DefaultOptionPinName -> env.Def
      [] Name.Prefix = CaseKeyPinNamePrefix -> env.Opt[Name.Index + 1]
      [] Name.Prefix = CaseValuePinNamePrefix -> env.Cond[Name.Index + 1]
      [] OTHER -> ""

RECURSIVE InputValue(_, _, _)
RECURSIVE OutputValue(_, _, _)

\* The value an input pin of a primitive node reads: what the custom pin
\* moved here read, else the output it is linked to, else its literal.
InputValue(g, env, k) ==
    IF g[k].MovedFrom # NoName THEN InputOf(env, g[k].MovedFrom)
    ELSE IF g[k].LinkedTo # <<>> THEN OutputValue(g, env, g[k].LinkedTo[1])
    ELSE g[k].DefaultValue

\* The value on the output pin k of a primitive node. A Select whose index
\* names no option yields env.OutOfRange, whatever the primitive does there.
OutputValue(g, env, k) ==
    CASE k.Node = "MakeArray" ->
            [i \in 1..Cardinality(KeyPinsOf(g)) |->
                InputValue(g, env, Key("MakeArray", "Key", i - 1))]
      [] k.Node = "ArrayFind" ->
            IntToString(Array_Find(InputValue(g, env, Key("ArrayFind", "TargetArray", 0)),
                                   InputValue(g, env, Key("ArrayFind", "ItemToFind", 0))))
      [] k.Node = "IntEqual" ->
            IF InputValue(g, env, Key("IntEqual", "A", 0))
                    = InputValue(g, env, Key("IntEqual", "B", 0))
            THEN "true" ELSE "false"
      [] k.Node \in {"Select1st", "Select2nd"} ->
            LET Index == SelectIndex(InputValue(g, env, Key(k.Node, "Index", 0)))
            IN  IF Key(k.Node, "Option", Index) \in DOMAIN g
                THEN InputValue(g, env, Key(k.Node, "Option", Index))
                ELSE env.OutOfRange
      [] OTHER -> ""

\* What the consumers of the custom node's return value pin read after the
\* expansion: the output pin their links were moved to.
ExpandedResult(g, env) ==
    LET outs == {k \in DOMAIN g : g[k].MovedFrom = ReturnValueOptionPinName}
    IN  IF outs = {} THEN "" ELSE OutputValue(g, env, CHOOSE k \in outs : TRUE)

-----------------------------------------------------------------------------
(* The compiler's pass over a snapshot of the node *)

\* A node as the compiler finds it: NumCases pairs, the non-condition pins
\* of type T, and, when Wired, every input pin linked to a pin of its own
\* and the return value pin to two consumers.
Snapshot(NumCases, T, Wired) ==
    LET pins == AddCasePinPairs(CreateReturnValuePin(CreateDefaultOptionPin(<<>>)), 0, NumCases)
    IN  [i \in 1..Len(pins) |->
            [pins[i] EXCEPT
                !.PinType = IF IsCaseValuePin(pins[i]) THEN @ ELSE T,
                !.DefaultValue = IF IsCaseValuePin(pins[i]) THEN @
                                 ELSE AutogeneratedDefaultValue(T),
                !.LinkedTo = IF ~Wired THEN <<>>
                             ELSE IF pins[i].Direction = EGPD_Output
                             THEN <<PeerRef(i), PeerRef(i + 1)>>
                             ELSE <<PeerRef(i)>>]]

InitExpand ==
    /\ \E NumCases \in 1..MaxExpandCases, Wired \in BOOLEAN,
          T \in {PinTypeOf(PC_Wildcard), PinTypeOf(PC_Int)} :
            Pins = Snapshot(NumCases, T, Wired)
    /\ Blueprint = [Modified |-> FALSE, Broadcasts |-> 0]
    /\ attempt = NoAttempt
    /\ lastOp = "Compile"
    /\ Intermediate = NoPins
    /\ pc = "ExpandNode"
    /\ run = NoRun

\* The custom node's pins and the primitive pins, as the blocks of
\* ExpandNode find them.
Current == [Pins |-> Pins, G |-> Intermediate]

\* Mutant: the blocks work on a copy of the node's pins, so the node keeps
\* the links it came with.
ExpandStep_PinsKept(From, To, st) ==
    /\ pc = From
    /\ Intermediate' = st.G
    /\ pc' = To
    /\ UNCHANGED <<Pins, editVars, run>>

\* One block of ExpandNode, leaving the pins as in st and moving ExpandNode
\* from From to To.
ExpandStep(From, To, st) ==
    /\ pc = From
    /\ Pins' = st.Pins
    /\ Intermediate' = st.G
    /\ pc' = To
    /\ UNCHANGED <<editVars, run>>

Expand_Spawn == ExpandStep("ExpandNode", "LinkOptions", SpawnIntermediateNodes(Current))
Expand_LinkOptions == ExpandStep("LinkOptions", "LinkConditions", LinkOptions(Current))
Expand_LinkConditions == ExpandStep("LinkConditions", "LinkArrayFind", LinkConditions(Current))
Expand_LinkArrayFind == ExpandStep("LinkArrayFind", "LinkSelect1stIndex", LinkMakeArrayToArrayFind(Current))
Expand_LinkSelect1stIndex == ExpandStep("LinkSelect1stIndex", "LinkIntEqual", LinkArrayFindToSelect1st(Current))
Expand_LinkIntEqual == ExpandStep("LinkIntEqual", "LinkSelects", LinkArrayFindToIntEqual(Current))
Expand_LinkSelects == ExpandStep("LinkSelects", "LinkReturnValue", LinkSelects(Current))
Expand_LinkReturnValue == ExpandStep("LinkReturnValue", "BreakAllNodeLinks", LinkReturnValue(Current))
Expand_BreakAllNodeLinks == ExpandStep("BreakAllNodeLinks", "done", BreakAllNodeLinks(Current))

\* The compiled graph is run once: the conditions, options and default the
\* custom node's pins would have read, and what a Select yields for an index
\* that names no option.
Evaluate ==
    /\ pc = "done"
    /\ run = NoRun
    /\ LET NumCases == GetCasePinCount(Pins)
       IN  \E Cond \in [1..NumCases -> Booleans], Opt \in [1..NumCases -> OptionValues],
              Def \in DefaultValues, OutOfRange \in OutOfRangeValues :
                LET env == [Cond |-> Cond, Opt |-> Opt, Def |-> Def,
                            OutOfRange |-> OutOfRange, Result |-> ""]
                IN  run' = [env EXCEPT !.Result = ExpandedResult(Intermediate, env)]
    /\ UNCHANGED <<Pins, editVars, Intermediate, pc>>

NextExpand ==
    \/ Expand_Spawn
    \/ Expand_LinkOptions
    \/ Expand_LinkConditions
    \/ Expand_LinkArrayFind
    \/ Expand_LinkSelect1stIndex
    \/ Expand_LinkIntEqual
    \/ Expand_LinkSelects
    \/ Expand_LinkReturnValue
    \/ Expand_BreakAllNodeLinks
    \/ Evaluate

SpecExpand == InitExpand /\ [][NextExpand]_vars

-----------------------------------------------------------------------------
(* Properties of the pin set and of type unification *)

N == GetCasePinCount(Pins)
DefaultType == Pins[GetDefaultOptionPin(Pins)].PinType
TypeFixed == Pins # <<>> /\ DefaultType.PinCategory # PC_Wildcard
OptionPin(pins, i) == FindPin(pins, GetCasePinName(CaseKeyPinNamePrefix, i))
ConditionPin(pins, i) == FindPin(pins, GetCasePinName(CaseValuePinNamePrefix, i))

\* Default, return value and option pins of pins all have type T, and the
\* condition pins are boolean.
TypedAs(pins, T) ==
    \A i \in 1..Len(pins) :
        IF IsCaseValuePin(pins[i])
        THEN pins[i].PinType = PinTypeOf(PC_Boolean)
        ELSE pins[i].PinType = T

\* A connection-changed event reaches the node for pin MyPin in this step:
\* an allowed Connect has added a link to it, or a Disconnect has taken one.
EventFor(MyPin) ==
    /\ Len(Pins') = Len(Pins)
    /\ \/ /\ lastOp' = "Connect" /\ ~attempt'.Result
          /\ Len(Pins'[MyPin].LinkedTo) = Len(Pins[MyPin].LinkedTo) + 1
       \/ /\ lastOp' = "Disconnect"
          /\ Len(Pins'[MyPin].LinkedTo) = Len(Pins[MyPin].LinkedTo) - 1

\* C3: once the default pin's type is fixed, no step (a connection-changed
\* event, an added pair, a reconstruction) changes the type of the default
\* pin or of any pin that exists before and after the step.
C3_FixedTypesStay ==
    [][(TypeFixed /\ Pins' # Pins) =>
        /\ Pins'[GetDefaultOptionPin(Pins')].PinType = DefaultType
        /\ \A i \in 1..Len(Pins), j \in 1..Len(Pins') :
                Pins[i].PinName = Pins'[j].PinName => Pins'[j].PinType = Pins[i].PinType]_vars

\* A pin of another type was linked after the type had been fixed to int.
C3_Witness ==
    /\ lastOp = "Connect" /\ ~attempt.Result /\ attempt.OtherPin = 2
    /\ TypeFixed /\ DefaultType = PeerPinType[1]
    /\ \E i \in 1..Len(Pins) : Pins[i].LinkedTo = <<PeerRef(2)>>

\* C4: an event for a linked pin that is no condition pin, while the default
\* pin is wildcard, gives the type of the pin's first link target to the
\* default pin, the return value pin and every option pin, and resets the
\* literal of each of them to that type's default.
C4_UnificationApplies ==
    [][\A MyPin \in 1..Len(Pins) :
        (/\ EventFor(MyPin)
         /\ Len(Pins'[MyPin].LinkedTo) >= 1
         /\ ~IsCaseValuePin(Pins[MyPin])
         /\ DefaultType.PinCategory = PC_Wildcard)
        => LET T == LinkedPinType(Pins'[MyPin].LinkedTo[1])
           IN  /\ Len(Pins') = Len(Pins)
               /\ \A i \in 1..Len(Pins') :
                    ~IsCaseValuePin(Pins'[i]) =>
                        /\ Pins'[i].PinType = T
                        /\ Pins'[i].DefaultValue = AutogeneratedDefaultValue(T)]_vars

\* The pass has just given int to the default, return value and three option
\* pins, each with the literal "0".
C4_Witness ==
    /\ lastOp = "Connect" /\ ~attempt.Result /\ attempt.OtherPin = 1
    /\ Blueprint.Broadcasts = 1
    /\ N = 3
    /\ \A i \in 1..Len(Pins) :
            ~IsCaseValuePin(Pins[i]) =>
                Pins[i].PinType = PeerPinType[1] /\ Pins[i].DefaultValue = "0"

\* C5: once the pins are allocated the ordinal layout is
\* [default][option 0..N-1][condition 0..N-1][result].
C5_PinLayout ==
    Pins # <<>> =>
        /\ Len(Pins) = 2 * N + 2
        /\ Pins[1].PinName = DefaultOptionPinName
        /\ \A i \in 0..(N - 1) :
                /\ Pins[2 + i].PinName = GetCasePinName(CaseKeyPinNamePrefix, i)
                /\ Pins[N + 2 + i].PinName = GetCasePinName(CaseValuePinNamePrefix, i)
        /\ Pins[2 * N + 2].PinName = ReturnValueOptionPinName

\* A third pair has just been added.
C5_Witness == lastOp = "AddCasePinPair" /\ N = 3 /\ Len(Pins) = 8

\* C6: a pair added while the type is fixed has an option pin of the default
\* pin's type and a boolean condition pin.
C6_AddedPairTyped ==
    [][(lastOp' = "AddCasePinPair" /\ GetCasePinCount(Pins') = N + 1 /\ TypeFixed)
        => /\ OptionPin(Pins', N) # 0
           /\ ConditionPin(Pins', N) # 0
           /\ Pins'[OptionPin(Pins', N)].PinType = DefaultType
           /\ Pins'[OptionPin(Pins', N)].PinType.PinCategory # PC_Wildcard
           /\ Pins'[ConditionPin(Pins', N)].PinType = PinTypeOf(PC_Boolean)]_vars

\* Pair 2 was added to a node fixed to object/Actor.
C6_Witness ==
    /\ lastOp = "AddCasePinPair" /\ N = 3
    /\ DefaultType = PeerPinType[2]
    /\ Pins[OptionPin(Pins, 2)].PinType = PeerPinType[2]

\* C7: a reconstruction of a node whose default pin had the fixed type T
\* leaves the default, return value and option pins with type T and the
\* condition pins boolean, on the same case pairs.
C7_ReconstructionKeepsType ==
    [][(lastOp' = "ReconstructNode" /\ TypeFixed)
        => /\ GetCasePinCount(Pins') = N
           /\ Len(Pins') = 2 * N + 2
           /\ TypedAs(Pins', DefaultType)]_vars

\* A node with three pairs fixed to object/Actor has been reconstructed.
C7_Witness ==
    /\ lastOp = "ReconstructNode" /\ N = 3
    /\ TypedAs(Pins, PeerPinType[2])

\* C8: an attempt to link an execution pin is answered "disallowed" with a
\* reason, and leaves the pins, their types and their links as they were.
C8_ExecRejected ==
    [][(lastOp' = "Connect" /\ PeerPinType[attempt'.OtherPin].PinCategory = PC_Exec)
        => /\ attempt'.Result
           /\ attempt'.OutReason # ""
           /\ Pins' = Pins]_vars

\* An execution pin was refused on a node that holds a link and a fixed type.
C8_Witness ==
    /\ lastOp = "Connect" /\ PeerPinType[attempt.OtherPin].PinCategory = PC_Exec
    /\ attempt.Result /\ attempt.OutReason = ExecReason
    /\ TypeFixed
    /\ \E i \in 1..Len(Pins) : Pins[i].LinkedTo # <<>>

\* C9: the answer is "disallowed" exactly when the other pin is an execution
\* pin or the superclass disallows the connection.
C9_DisallowedIsDisjunction ==
    lastOp = "Connect" =>
        (attempt.Result <=>
            (PeerPinType[attempt.OtherPin].PinCategory = PC_Exec \/ attempt.SuperDisallowed))

\* The superclass refused a pin that is no execution pin, and so did the node.
C9_Witness ==
    /\ lastOp = "Connect" /\ attempt.SuperDisallowed /\ attempt.Result
    /\ PeerPinType[attempt.OtherPin].PinCategory = PC_Int

-----------------------------------------------------------------------------
(* Properties of the expanded subgraph *)

AllFalse(Cond) == \A i \in 1..Len(Cond) : Cond[i] = "false"
FirstTrue(Cond) ==
    CHOOSE i \in 1..Len(Cond) :
        Cond[i] = "true" /\ \A j \in 1..(i - 1) : Cond[j] # "true"

\* C1: the expanded subgraph yields the option of the first true condition,
\* and the default value when no condition is true.
C1_FirstTrueWins ==
    run # NoRun =>
        run.Result = IF AllFalse(run.Cond) THEN run.Def ELSE run.Opt[FirstTrue(run.Cond)]

\* conditions = [false, true, true], options = [A, B, C], default = D: B.
C1_Witness ==
    /\ pc = "done"
    /\ run.Cond = <<"false", "true", "true">>
    /\ run.Opt = <<"A", "B", "C">>
    /\ run.Def = "D"
    /\ run.Result = "B"

\* C2: with every condition false the result is the default value, and it is
\* the same for every other choice of the option values and of what the 1st
\* Select yields for the index -1.
C2_FallbackIndependent ==
    (run # NoRun /\ AllFalse(run.Cond)) =>
        /\ run.Result = run.Def
        /\ \A Opt \in [1..Len(run.Opt) -> OptionValues], OutOfRange \in OutOfRangeValues :
                ExpandedResult(Intermediate,
                               [run EXCEPT !.Opt = Opt, !.OutOfRange = OutOfRange])
                    = run.Result

\* conditions = [false, false], options = [A, B], default = D, the 1st Select
\* yielding A for -1: D.
C2_Witness ==
    /\ pc = "done"
    /\ run.Cond = <<"false", "false">>
    /\ run.Opt = <<"A", "B">>
    /\ run.Def = "D"
    /\ run.OutOfRange = "A"
    /\ run.Result = "D"

-----------------------------------------------------------------------------
(* Properties of the connection-changed handler *)

\* C11 (as claimed): over any sequence of connection-changed events the body
\* of the pass (types, resets, mark modified, notify) runs at most once.
C11_PassRunsAtMostOnce == Blueprint.Broadcasts <= 1

\* C11 (amended): once the default pin's type is not wildcard, no step runs
\* the body of the pass: the document is neither marked nor notified again
\* and no literal is reset. The body runs only from an unresolved default pin.
C11_NoPassOnceFixed ==
    [][TypeFixed =>
        /\ Blueprint' = Blueprint
        /\ \A i \in 1..Len(Pins), j \in 1..Len(Pins') :
                Pins[i].PinName = Pins'[j].PinName =>
                    Pins'[j].DefaultValue = Pins[i].DefaultValue]_vars

\* The body ran for a wildcard link and again for an int link, which fixed
\* the type; the later event for an object link was a no-op.
C11_Witness ==
    /\ Blueprint.Broadcasts = 2
    /\ TypeFixed /\ DefaultType = PeerPinType[1]
    /\ lastOp = "Connect" /\ ~attempt.Result /\ attempt.OtherPin = 2
    /\ \A i \in 1..Len(Pins) : ~IsCaseValuePin(Pins[i]) => Pins[i].DefaultValue = "0"

\* C12: an event for a pin left without links, or for a condition pin,
\* changes no pin's type or literal and neither marks the document modified
\* nor notifies, whatever the default pin's type.
C12_IgnoredEvents ==
    [][\A MyPin \in 1..Len(Pins) :
        (/\ EventFor(MyPin)
         /\ \/ Len(Pins'[MyPin].LinkedTo) = 0
            \/ IsCaseValuePin(Pins[MyPin]))
        => /\ Blueprint' = Blueprint
           /\ \A i \in 1..Len(Pins) :
                /\ Pins'[i].PinType = Pins[i].PinType
                /\ Pins'[i].DefaultValue = Pins[i].DefaultValue]_vars

\* A condition pin has just been linked to an int pin on a node whose type
\* is unresolved: nothing was typed, marked or notified.
C12_Witness ==
    /\ lastOp = "Connect" /\ ~attempt.Result /\ attempt.OtherPin = 1
    /\ \E i \in 1..Len(Pins) :
            IsCaseValuePin(Pins[i]) /\ Pins[i].LinkedTo = <<PeerRef(1)>>
    /\ ~TypeFixed
    /\ Blueprint = [Modified |-> FALSE, Broadcasts |-> 0]

-----------------------------------------------------------------------------
(* Properties of the expansion: links *)

IsExternal(ref) == ref.Node = "Ext"

\* The links of a pin that lead to pins of other nodes of the user's graph.
ExternalLinks(LinkedTo) == SelectSeq(LinkedTo, IsExternal)

\* Some pin of the custom node still has a link.
StillLinked == \E i \in 1..Len(Pins) : Pins[i].LinkedTo # <<>>

\* The node came to the compiler with links to other nodes.
CameWired ==
    \/ \E i \in 1..Len(Pins) : ExternalLinks(Pins[i].LinkedTo) # <<>>
    \/ \E k \in DOMAIN Intermediate : ExternalLinks(Intermediate[k].LinkedTo) # <<>>

\* The primitive pin that takes over the custom node's pin of that name.
Target(Name) ==
    CASE Name = DefaultOptionPinName -> Key("Select2nd", "Option", 1)
      [] Name = ReturnValueOptionPinName -> Key("Select2nd", "ReturnValue", 0)
      [] Name.Prefix = CaseKeyPinNamePrefix -> Key("Select1st", "Option", Name.Index)
      [] Name.Prefix = CaseValuePinNamePrefix -> Key("MakeArray", "Key", Name.Index)

\* The external links that are at primitive pin k or still at the pin of the
\* custom node that k takes over, in order.
LinksAt(pins, g, k) ==
    LET from == {i \in 1..Len(pins) : Target(pins[i].PinName) = k}
    IN  (IF k \in DOMAIN g THEN ExternalLinks(g[k].LinkedTo) ELSE <<>>)
            \o (IF from = {} THEN <<>>
                ELSE ExternalLinks(pins[CHOOSE i \in from : TRUE].LinkedTo))

\* C13: after ExpandNode no pin of the custom node has a link.
C13_NodeUnlinked ==
    pc = "done" => \A i \in 1..Len(Pins) : Pins[i].LinkedTo = <<>>

\* A node with three pairs that came with a link on every pin has none left,
\* and the links are on the primitive nodes.
C13_Witness ==
    /\ pc = "done" /\ N = 3
    /\ ~StillLinked
    /\ \A i \in 1..Len(Pins) :
            ExternalLinks(Intermediate[Target(Pins[i].PinName)].LinkedTo) # <<>>

\* C14: no step of the expansion copies or drops a link to another node: the
\* links of option pin i are, before and after every step, at that pin or at
\* option input i of the 1st Select, those of condition pin i at input i of
\* Make Array, those of the default pin at option input 1 of the 2nd Select,
\* those of the return value pin at the 2nd Select's output; no other
\* primitive pin has a link to another node, and in the end the custom node
\* has none.
C14_LinksMigrate ==
    [][/\ \A k \in (DOMAIN Intermediate') \cup {Target(Pins[i].PinName) : i \in 1..Len(Pins)} :
            LinksAt(Pins', Intermediate', k) = LinksAt(Pins, Intermediate, k)
       /\ pc' = "done" => \A i \in 1..Len(Pins') : Pins'[i].LinkedTo = <<>>]_vars

\* Three pairs: the peers of option 2, of condition 2, of the default pin and
\* the two consumers of the result are where the claim puts them.
C14_Witness ==
    /\ pc = "done" /\ N = 3
    /\ Intermediate[Key("Select1st", "Option", 2)].LinkedTo = <<PeerRef(4)>>
    /\ Intermediate[Key("MakeArray", "Key", 2)].LinkedTo = <<PeerRef(7)>>
    /\ ExternalLinks(Intermediate[Key("Select2nd", "Option", 1)].LinkedTo) = <<PeerRef(1)>>
    /\ Intermediate[Key("Select2nd", "ReturnValue", 0)].LinkedTo = <<PeerRef(8), PeerRef(9)>>

\* Pins A and B of the primitive nodes are linked to each other.
HasLink(A, B) ==
    /\ A \in DOMAIN Intermediate /\ B \in DOMAIN Intermediate
    /\ \E i \in 1..Len(Intermediate[A].LinkedTo) : Intermediate[A].LinkedTo[i] = B
    /\ \E i \in 1..Len(Intermediate[B].LinkedTo) : Intermediate[B].LinkedTo[i] = A

\* The five primitive nodes exist and are wired to each other.
PrimitivesWired ==
    /\ {k.Node : k \in DOMAIN Intermediate}
            = {"Select1st", "Select2nd", "MakeArray", "ArrayFind", "IntEqual"}
    /\ HasLink(Key("MakeArray", "Array", 0), Key("ArrayFind", "TargetArray", 0))
    /\ Intermediate[Key("ArrayFind", "ItemToFind", 0)].DefaultValue = "true"
    /\ HasLink(Key("ArrayFind", "ReturnValue", 0), Key("Select1st", "Index", 0))
    /\ HasLink(Key("ArrayFind", "ReturnValue", 0), Key("IntEqual", "A", 0))
    /\ Intermediate[Key("IntEqual", "B", 0)].DefaultValue = "-1"
    /\ HasLink(Key("IntEqual", "ReturnValue", 0), Key("Select2nd", "Index", 0))
    /\ HasLink(Key("Select1st", "ReturnValue", 0), Key("Select2nd", "Option", 0))

\* Every pin of the custom node has handed its links to a primitive pin.
AllMigrated ==
    \A i \in 1..Len(Pins) :
        \E k \in DOMAIN Intermediate :
            /\ Intermediate[k].MovedFrom = Pins[i].PinName
            /\ CameWired => ExternalLinks(Intermediate[k].LinkedTo) # <<>>

\* C15: BreakAllNodeLinks has run only when the five primitive nodes are
\* spawned and wired and every pin's links are migrated, and a node that came
\* with links is without links only when no wiring or migration is pending.
C15_BreakComesLast ==
    /\ pc = "done" => (PrimitivesWired /\ AllMigrated)
    /\ (CameWired /\ ~StillLinked) =>
            (pc \in {"BreakAllNodeLinks", "done"} /\ PrimitivesWired /\ AllMigrated)

\* The last migration is done and BreakAllNodeLinks is the one step pending,
\* on a node that came with links.
C15_Witness ==
    /\ pc = "BreakAllNodeLinks" /\ N = 2
    /\ CameWired /\ ~StillLinked
    /\ PrimitivesWired /\ AllMigrated

-----------------------------------------------------------------------------
(* Properties of the expansion: the primitive nodes' inputs *)

\* The option inputs a Select node has.
OptionPinsOf(Node) == {k \in DOMAIN Intermediate : k.Node = Node /\ k.Pin = "Option"}

\* C16 (as claimed): for every N >= 1 the 1st Select has exactly N option
\* inputs and Make Array exactly N element inputs.
C16_ExactlyNInputs ==
    pc # "ExpandNode" =>
        /\ Cardinality(OptionPinsOf("Select1st")) = N
        /\ Cardinality(KeyPinsOf(Intermediate)) = N

\* C16 (amended): the 1st Select has N option inputs for N >= 2 and two for
\* N = 1, Make Array has N element inputs, and in the end it is the first N
\* of each that took over an option pin or a condition pin.
C16_InputCounts ==
    pc # "ExpandNode" =>
        /\ Cardinality(OptionPinsOf("Select1st")) = (IF N >= 2 THEN N ELSE 2)
        /\ Cardinality(KeyPinsOf(Intermediate)) = N
        /\ pc = "done" =>
            /\ \A k \in OptionPinsOf("Select1st") :
                    IF k.Index < N
                    THEN Intermediate[k].MovedFrom = GetCasePinName(CaseKeyPinNamePrefix, k.Index)
                    ELSE Intermediate[k] = FreshPin
            /\ \A k \in KeyPinsOf(Intermediate) :
                    Intermediate[k].MovedFrom = GetCasePinName(CaseValuePinNamePrefix, k.Index)

\* One case pair: the 1st Select has two option inputs, the second one
\* untouched, and Make Array one input.
C16_Witness ==
    /\ pc = "done" /\ N = 1
    /\ OptionPinsOf("Select1st") = {Key("Select1st", "Option", 0), Key("Select1st", "Option", 1)}
    /\ Intermediate[Key("Select1st", "Option", 0)].LinkedTo = <<PeerRef(2)>>
    /\ Intermediate[Key("Select1st", "Option", 1)] = FreshPin
    /\ KeyPinsOf(Intermediate) = {Key("MakeArray", "Key", 0)}

\* C17 (as claimed): for every N >= 1 the 2nd Select has exactly two option
\* inputs, input 0 fed by the 1st Select's output and input 1 by the default
\* pin, and its index is fed by the comparison of Array_Find's result with -1.
C17_Select2ndTwoWay ==
    pc = "done" =>
        /\ Cardinality(OptionPinsOf("Select2nd")) = 2
        /\ HasLink(Key("Select1st", "ReturnValue", 0), Key("Select2nd", "Option", 0))
        /\ Intermediate[Key("Select2nd", "Option", 1)].MovedFrom = DefaultOptionPinName
        /\ HasLink(Key("IntEqual", "ReturnValue", 0), Key("Select2nd", "Index", 0))
        /\ HasLink(Key("ArrayFind", "ReturnValue", 0), Key("IntEqual", "A", 0))
        /\ Intermediate[Key("IntEqual", "B", 0)].DefaultValue = "-1"

-----------------------------------------------------------------------------
(* Properties of the pin set and of what triggers the unification *)

\* The positions of the pins of that name.
PinsNamed(Name) == {i \in 1..Len(Pins) : Pins[i].PinName = Name}

\* C18: once allocated, and after every added pair and reconstruction, the
\* node has at least two case pairs, no two pins of one name, one default
\* pin, one return value pin, and for each i in 0..N-1 one option pin and one
\* condition pin named with i, and no other pin.
C18_PinSetWellFormed ==
    Pins # <<>> =>
        /\ N >= 2
        /\ \A i, j \in 1..Len(Pins) : Pins[i].PinName = Pins[j].PinName => i = j
        /\ Cardinality(PinsNamed(DefaultOptionPinName)) = 1
        /\ Cardinality(PinsNamed(ReturnValueOptionPinName)) = 1
        /\ \A c \in 0..(N - 1) :
                /\ Cardinality(PinsNamed(GetCasePinName(CaseKeyPinNamePrefix, c))) = 1
                /\ Cardinality(PinsNamed(GetCasePinName(CaseValuePinNamePrefix, c))) = 1
        /\ \A i \in 1..Len(Pins) :
                (IsCaseKeyPin(Pins[i]) \/ IsCaseValuePin(Pins[i])) =>
                    Pins[i].PinName.Index \in 0..(N - 1)
        /\ Len(Pins) = 2 * N + 2

\* A node that was given a third pair and a link has been reconstructed.
C18_Witness ==
    /\ lastOp = "ReconstructNode"
    /\ N = 3 /\ Len(Pins) = 8
    /\ OptionPin(Pins, 2) # 0 /\ ConditionPin(Pins, 2) # 0
    /\ NumLinks = 1

\* The step has changed the type of a pin that exists before and after it.
TypesChanged ==
    /\ Len(Pins') = Len(Pins)
    /\ \E i \in 1..Len(Pins) : Pins'[i].PinType # Pins[i].PinType

\* C19 (as claimed): an event for the return value (output) pin while the
\* default pin is wildcard changes no pin type.
C19_OutputPinIgnored ==
    [][\A MyPin \in 1..Len(Pins) :
        (/\ lastOp' \in {"Connect", "Disconnect"}
         /\ EventFor(MyPin)
         /\ Pins[MyPin].Direction = EGPD_Output
         /\ DefaultType.PinCategory = PC_Wildcard)
        => ~TypesChanged]_vars

\* C19 (amended): a step types pins, marks or notifies only when it is an
\* event for a pin that has a link and is no condition pin, with the default
\* pin wildcard; the return value pin is such a pin: an event for it with a
\* link gives the linked pin's type to the default, return value and option
\* pins.
C19_TriggerPins ==
    [][/\ (Blueprint' # Blueprint \/ TypesChanged) =>
            \E MyPin \in 1..Len(Pins) :
                /\ EventFor(MyPin)
                /\ Len(Pins'[MyPin].LinkedTo) >= 1
                /\ ~IsCaseValuePin(Pins[MyPin])
                /\ DefaultType.PinCategory = PC_Wildcard
       /\ \A MyPin \in 1..Len(Pins) :
            (/\ lastOp' \in {"Connect", "Disconnect"}
             /\ EventFor(MyPin)
             /\ Pins[MyPin].Direction = EGPD_Output
             /\ Len(Pins'[MyPin].LinkedTo) >= 1
             /\ DefaultType.PinCategory = PC_Wildcard)
            => /\ TypedAs(Pins', LinkedPinType(Pins'[MyPin].LinkedTo[1]))
               /\ Blueprint' = MarkAndBroadcast(Blueprint)]_vars

\* The return value pin of an unresolved node was linked to an int pin, and
\* the node is int now.
C19_Witness ==
    /\ lastOp = "Connect" /\ ~attempt.Result /\ attempt.OtherPin = 1
    /\ Pins[GetReturnValuePin(Pins)].LinkedTo = <<PeerRef(1)>>
    /\ Blueprint = [Modified |-> TRUE, Broadcasts |-> 1]
    /\ TypedAs(Pins, PeerPinType[1])

====
